---- MODULE Spec2Model ----
(***************************************************************************)
(* Seed management and experiment manifests of Presentar's Python          *)
(* utilities: scripts/reproducibility.py, scripts/set_seeds.py and         *)
(* conftest.py.                                                            *)
(*                                                                         *)
(* The process state is the language generator, the PYTHONHASHSEED         *)
(* environment variable, the generator state of each optional backend,     *)
(* the cuDNN flags, and (for the manifest store) the clock, the manifest   *)
(* in memory and the files on disk.                                        *)
(***************************************************************************)
EXTENDS Integers, Sequences, FiniteSets, TLC

VARIABLES
    env,        \* backend name -> how importing / seeding it behaves here
    pyState,    \* state of the `random` module's generator
    hashSeed,   \* os.environ["PYTHONHASHSEED"], a string of digits ("" = unset)
    gen,        \* backend name -> state of its global generator
    cudaGen,    \* state of torch's CUDA generators
    cudnn,      \* torch.backends.cudnn: [deterministic, benchmark]
    order,      \* the sinks the most recent broadcast wrote, in order
    calls,      \* the (at most two) most recent calls: [op, seed, raised, ret]
    vpc,        \* verify_reproducibility: "idle", "loop" or "done"
    vfunc,      \*   its func argument
    vruns,      \*   its n_runs argument
    vseed,      \*   its seed argument
    results,    \*   its local list `results`
    vret,       \*   its outcome: "none", "True", "False" or "raised"
    clock,      \* datetime.utcnow(), as a number of seconds
    manifest,   \* the manifest most recently built (a Python dict), or None
    previous,   \* the manifest built before it, or None
    files,      \* the JSON files on disk: path -> JSON text
    saved,      \* the path returned by the last save_experiment, or <<>>
    loaded      \* the record read back from `saved`, or None

seedVars == <<env, pyState, hashSeed, gen, cudaGen, cudnn, order, calls>>
verifyVars == <<vpc, vfunc, vruns, vseed, results, vret>>
manifestVars == <<clock, manifest, previous, files, saved, loaded>>
vars == <<seedVars, verifyVars, manifestVars>>

----------------------------------------------------------------------------
(* Bounds of the model *)

MaxSeed == 1        \* explicit seeds are 0..MaxSeed, plus RANDOM_SEED
MaxPos == 2         \* draws a caller makes between two calls
MaxRuns == 3        \* n_runs ranges over 0..MaxRuns
MaxReading == 1     \* a reading of the uncontrolled source is in 0..MaxReading
MaxClock == 2       \* the clock reads 0..MaxClock

(* Program constants *)

RANDOM_SEED == 42   \* int(os.environ.get("RANDOM_SEED", "42"))
NDraws == 10        \* sample_random draws 10 values
ChecksumLen == 16   \* hexdigest()[:16]
DigestLen == 64     \* a SHA-256 digest is 64 hexadecimal digits

Seeds == (0..MaxSeed) \cup {RANDOM_SEED}

Backends == {"numpy", "torch", "tensorflow", "jax"}

(* How a backend behaves in this environment:                              *)
(*   "absent"   import raises ModuleNotFoundError (an ImportError)         *)
(*   "broken"   installed, but import raises another ImportError           *)
(*   "seedfail" imports, and its seeding call raises (not an ImportError)  *)
(*   "ok"       imports and seeds                                          *)
(*   "cuda"     torch only: as "ok", with torch.cuda.is_available()        *)
Statuses(b) ==
    CASE b = "numpy" -> {"absent", "broken", "seedfail", "ok"}
      [] b = "torch" -> {"absent", "broken", "seedfail", "ok", "cuda"}
      [] b = "tensorflow" -> {"absent", "broken", "seedfail", "ok"}
      [] b = "jax" -> {"absent", "broken", "ok"}

Importable(e, b) == e[b] \in {"seedfail", "ok", "cuda"}
ImportErrorOf(e, b) == e[b] \in {"absent", "broken"}

----------------------------------------------------------------------------
(* Generators.  A generator's state is the seed it was last given and the  *)
(* number of values drawn since; seed -1 is the state a generator has      *)
(* before anything seeds it (operating-system entropy).                    *)

Unseeded == [seed |-> -1, pos |-> 0]
Seeded(s) == [seed |-> s, pos |-> 0]
Value(g) == (g.seed * 7 + g.pos * 3 + 11) % 13
Advance(g) == [g EXCEPT !.pos = @ + 1]

(* [random.random() for _ in range(n)]: the values, and the state after *)
RECURSIVE DrawList(_, _)
DrawList(g, n) ==
    IF n = 0 THEN <<>> ELSE <<Value(g)>> \o DrawList(Advance(g), n - 1)

RECURSIVE AdvanceBy(_, _)
AdvanceBy(g, n) == IF n = 0 THEN g ELSE AdvanceBy(Advance(g), n - 1)

(* str(seed), as the sequence of its decimal digits *)
Digit(d) == <<"0", "1", "2", "3", "4", "5", "6", "7", "8", "9">>[d + 1]
RECURSIVE Str(_)
Str(n) == IF n < 10 THEN <<Digit(n)>> ELSE Str(n \div 10) \o <<Digit(n % 10)>>

----------------------------------------------------------------------------
(* The process state one broadcast works on, as a record, with `exc` set   *)
(* once a statement has raised: the statements after it do not run.        *)

World ==
    [py |-> pyState, hash |-> hashSeed, gen |-> gen, cudaGen |-> cudaGen,
     cudnn |-> cudnn, order |-> order, exc |-> FALSE]

Wrote(w, sink) == [w EXCEPT !.order = Append(@, sink)]

\* random.seed(seed)
SeedRandom(w, s) ==
    IF w.exc THEN w ELSE Wrote([w EXCEPT !.py = Seeded(s)], "random")

\* os.environ["PYTHONHASHSEED"] = +str(seed): appends instead of assigning
SetHashSeedAppends(w, s) ==
    IF w.exc THEN w ELSE Wrote([w EXCEPT !.hash = @ \o Str(s)], "PYTHONHASHSEED")

\* os.environ["PYTHONHASHSEED"] = str(seed)
SetHashSeed(w, s) ==
    IF w.exc THEN w ELSE Wrote([w EXCEPT !.hash = Str(s)], "PYTHONHASHSEED")

\* np.random.seed(seed), with np the module-level import
NpRandomSeed(w, s) ==
    IF w.exc THEN w
    ELSE IF env["numpy"] = "ok"
         THEN Wrote([w EXCEPT !.gen["numpy"] = Seeded(s)], "numpy")
         ELSE [w EXCEPT !.exc = TRUE]

\* set_seeds._set_numpy_seed
_set_numpy_seed(w, s) ==
    IF w.exc \/ ImportErrorOf(env, "numpy") THEN w
    ELSE NpRandomSeed(w, s)

\* the torch block without its try/except ImportError
TorchBlockUncaught(w, s) ==
    IF w.exc THEN w
    ELSE IF env["torch"] \in {"absent", "broken", "seedfail"}
         THEN [w EXCEPT !.exc = TRUE]
    ELSE IF env["torch"] = "cuda"
         THEN Wrote([w EXCEPT !.gen["torch"] = Seeded(s),
                              !.cudaGen = Seeded(s),
                              !.cudnn = [deterministic |-> TRUE,
                                         benchmark |-> FALSE]], "torch")
    ELSE Wrote([w EXCEPT !.gen["torch"] = Seeded(s)], "torch")

\* try: import torch; torch.manual_seed(seed);
\*      if torch.cuda.is_available(): seed the CUDA generators, set the flags
\* except ImportError: pass
\* (conftest.py calls manual_seed_all alone, the others manual_seed as well:
\* either way every CUDA generator ends seeded)
TorchBlock(w, s) ==
    IF w.exc \/ ImportErrorOf(env, "torch") THEN w
    ELSE IF env["torch"] = "seedfail" THEN [w EXCEPT !.exc = TRUE]
    ELSE IF env["torch"] = "cuda"
         THEN Wrote([w EXCEPT !.gen["torch"] = Seeded(s),
                              !.cudaGen = Seeded(s),
                              !.cudnn = [deterministic |-> TRUE,
                                         benchmark |-> FALSE]], "torch")
    ELSE Wrote([w EXCEPT !.gen["torch"] = Seeded(s)], "torch")

\* the tensorflow block with the call of tf.random.set_seed left out
TensorFlowBlockNoSeed(w, s) ==
    IF w.exc \/ ImportErrorOf(env, "tensorflow") THEN w
    ELSE IF env["tensorflow"] = "seedfail" THEN [w EXCEPT !.exc = TRUE]
    ELSE w

\* try: import tensorflow as tf; tf.random.set_seed(seed) except ImportError
TensorFlowBlock(w, s) ==
    IF w.exc \/ ImportErrorOf(env, "tensorflow") THEN w
    ELSE IF env["tensorflow"] = "seedfail" THEN [w EXCEPT !.exc = TRUE]
    ELSE Wrote([w EXCEPT !.gen["tensorflow"] = Seeded(s)], "tensorflow")

\* set_seeds._set_jax_seed: imports jax and prints the PRNGKey pattern
_set_jax_seed(w, s) == w

----------------------------------------------------------------------------
(* The three broadcasters, each as the state it leaves *)

\* reproducibility.set_seed; `import numpy as np` at module level must have
\* succeeded for the function to exist at all
set_seed(w, s) ==
    IF ~Importable(env, "numpy") THEN [w EXCEPT !.exc = TRUE]
    ELSE TensorFlowBlock(
           TorchBlock(SetHashSeed(NpRandomSeed(SeedRandom(w, s), s), s), s),
           s)

\* set_seeds.set_all_seeds
set_all_seeds(w, s) ==
    _set_jax_seed(
      TensorFlowBlock(
        TorchBlock(_set_numpy_seed(SetHashSeed(SeedRandom(w, s), s), s), s),
        s),
      s)

\* conftest.set_seed
conftest_set_seed(w, s) ==
    IF ~Importable(env, "numpy") THEN [w EXCEPT !.exc = TRUE]
    ELSE TorchBlock(
           TensorFlowBlock(SetHashSeed(NpRandomSeed(SeedRandom(w, s), s), s), s),
           s)

Broadcast(op, w, s) ==
    CASE op = "set_seed" -> set_seed(w, s)
      [] op = "set_all_seeds" -> set_all_seeds(w, s)
      [] op = "conftest_set_seed" -> conftest_set_seed(w, s)

BroadcastOps == {"set_seed", "set_all_seeds", "conftest_set_seed"}

\* reproducibility.get_seed
get_seed == RANDOM_SEED

----------------------------------------------------------------------------
\* a call and its outcome; -1 stands for "no seed argument" and "returns None"
NoArg == -1
NoRet == -1
Call(op, s, raised, ret) == [op |-> op, seed |-> s, raised |-> raised, ret |-> ret]
Record(c) == IF calls = <<>> THEN <<c>> ELSE <<calls[Len(calls)], c>>
Last == calls[Len(calls)]

Commit(w) ==
    /\ pyState' = w.py
    /\ hashSeed' = w.hash
    /\ gen' = w.gen
    /\ cudaGen' = w.cudaGen
    /\ cudnn' = w.cudnn
    /\ order' = w.order

InitSeed ==
    /\ env \in {e \in [Backends -> {"absent", "broken", "seedfail", "ok", "cuda"}] :
                  \A b \in Backends : e[b] \in Statuses(b)}
    /\ pyState = Unseeded
    /\ hashSeed = <<>>
    /\ gen = [b \in Backends |-> Unseeded]
    /\ cudaGen = Unseeded
    /\ cudnn = [deterministic |-> FALSE, benchmark |-> FALSE]
    /\ order = <<>>
    /\ calls = <<>>

InitVerify ==
    /\ vpc = "idle"
    /\ vfunc = "none"
    /\ vruns = 0
    /\ vseed = RANDOM_SEED
    /\ results = <<>>
    /\ vret = "none"

InitManifest ==
    /\ clock = 0
    /\ manifest = [t |-> "none", v |-> 0]
    /\ previous = [t |-> "none", v |-> 0]
    /\ files = <<>>
    /\ saved = <<>>
    /\ loaded = [t |-> "none", v |-> 0]

Init == InitSeed /\ InitVerify /\ InitManifest

\* a caller applies a seed through one of the broadcasters
Apply(op, s) ==
    /\ vpc # "loop"
    /\ LET w == Broadcast(op, [World EXCEPT !.order = <<>>], s)
       IN /\ Commit(w)
          /\ calls' = Record(Call(op, s, w.exc, NoRet))
    /\ UNCHANGED <<env, verifyVars, manifestVars>>

SetSeed == \E s \in Seeds : Apply("set_seed", s)
SetAllSeeds == \E s \in Seeds : Apply("set_all_seeds", s)
ConftestSetSeed == \E s \in Seeds : Apply("conftest_set_seed", s)

\* a caller draws one value from the language generator: random.random()
Draw ==
    /\ vpc # "loop"
    /\ pyState.pos < MaxPos
    /\ pyState' = Advance(pyState)
    /\ calls' = Record(Call("random", NoArg, FALSE, Value(pyState)))
    /\ UNCHANGED <<env, hashSeed, gen, cudaGen, cudnn, order, verifyVars, manifestVars>>

\* a caller asks for the current seed
GetSeed ==
    /\ vpc # "loop"
    /\ Importable(env, "numpy")
    /\ calls' = Record(Call("get_seed", NoArg, FALSE, get_seed))
    /\ UNCHANGED <<env, pyState, hashSeed, gen, cudaGen, cudnn, order, verifyVars, manifestVars>>

NextSeed == SetSeed \/ SetAllSeeds \/ ConftestSetSeed \/ Draw \/ GetSeed

SpecSeed == Init /\ [][NextSeed]_vars

----------------------------------------------------------------------------
(* verify_reproducibility(func, n_runs, seed), one loop iteration a step *)

(* The computations handed to the verifier:                                *)
(*   "sample_random"  [random.random() for _ in range(10)]                 *)
(*   "np_random"      [np.random.random()]                                 *)
(*   "time"           [time.time()]: a reading no seed controls            *)
Funcs == {"sample_random", "np_random", "time"}

\* what the uncontrolled source can read when f consults it
Readings(f) == IF f = "time" THEN 0..MaxReading ELSE {0}

\* result = func(): the value returned
FuncResult(f, w, t) ==
    CASE f = "sample_random" -> DrawList(w.py, NDraws)
      [] f = "np_random" -> <<Value(w.gen["numpy"])>>
      [] f = "time" -> <<t>>

\* result = func(): the process state it leaves
FuncEffect(f, w) ==
    CASE f = "sample_random" -> [w EXCEPT !.py = AdvanceBy(@, NDraws)]
      [] f = "np_random" -> [w EXCEPT !.gen["numpy"] = Advance(@)]
      [] f = "time" -> w

\* the loop body with set_seed(seed) hoisted out of the loop
SeedOnlyFirstRun(w, s, done) ==
    IF done = 0 THEN set_seed(w, s) ELSE w

\* set_seed(seed), at the top of every iteration
SeedBeforeRun(w, s, done) == set_seed(w, s)

\* all(r == results[0] for r in results)
AllEqualFirst(rs) == \A i \in 1..Len(rs) : rs[i] = rs[1]

VerifyCall ==
    /\ vpc # "loop"
    /\ Importable(env, "numpy")
    /\ \E f \in Funcs, n \in 0..MaxRuns, s \in Seeds :
         /\ vfunc' = f
         /\ vruns' = n
         /\ vseed' = s
    /\ vpc' = "loop"
    /\ results' = <<>>
    /\ vret' = "none"
    /\ UNCHANGED <<seedVars, manifestVars>>

\* for _ in range(n_runs): set_seed(seed); result = func(); results.append(result)
VerifyIter ==
    /\ vpc = "loop"
    /\ Len(results) < vruns
    /\ LET w == SeedBeforeRun([World EXCEPT !.order = <<>>], vseed, Len(results))
       IN IF w.exc
          THEN /\ Commit(w)
               /\ vpc' = "done"
               /\ vret' = "raised"
               /\ UNCHANGED results
          ELSE /\ Commit(FuncEffect(vfunc, w))
               /\ \E t \in Readings(vfunc) :
                    results' = Append(results, FuncResult(vfunc, w, t))
               /\ UNCHANGED <<vpc, vret>>
    /\ UNCHANGED <<env, calls, vfunc, vruns, vseed, manifestVars>>

\* return all(r == results[0] for r in results)
VerifyReturn ==
    /\ vpc = "loop"
    /\ Len(results) >= vruns
    /\ vpc' = "done"
    /\ vret' = IF AllEqualFirst(results) THEN "True" ELSE "False"
    /\ UNCHANGED <<seedVars, vfunc, vruns, vseed, results, manifestVars>>

NextVerify == VerifyCall \/ VerifyIter \/ VerifyReturn

SpecVerify == Init /\ [][NextVerify]_vars

----------------------------------------------------------------------------
(* Python values and JSON.  A Python value is a tagged record: "none",     *)
(* "int", "bool", "str" (a sequence of characters), "list", "tuple" (a     *)
(* sequence of values) or "dict" (its items <<key, value>> in insertion    *)
(* order).  A JSON text is modelled by its syntax tree: "null", "num",     *)
(* "true", "false", "string", "array" or "object" (members in the order    *)
(* they are written).                                                      *)

PNone == [t |-> "none", v |-> 0]
PInt(n) == [t |-> "int", v |-> n]
PBool(b) == [t |-> "bool", v |-> b]
PStr(cs) == [t |-> "str", v |-> cs]
PList(xs) == [t |-> "list", v |-> xs]
PTuple(xs) == [t |-> "tuple", v |-> xs]
PDict(items) == [t |-> "dict", v |-> items]

Keys(d) == {d.v[i][1] : i \in 1..Len(d.v)}
Get(d, k) == d.v[CHOOSE i \in 1..Len(d.v) : d.v[i][1] = k][2]

\* a == b on Python values
RECURSIVE PyEq(_, _)
PyEq(a, b) ==
    IF a.t # b.t THEN FALSE
    ELSE IF a.t = "dict"
         THEN /\ Keys(a) = Keys(b)
              /\ \A k \in Keys(a) : PyEq(Get(a, k), Get(b, k))
    ELSE IF a.t \in {"list", "tuple"}
         THEN /\ Len(a.v) = Len(b.v)
              /\ \A i \in 1..Len(a.v) : PyEq(a.v[i], b.v[i])
    ELSE a.v = b.v

\* the keys the model uses, in lexicographic order
KeyOrder ==
    <<"batch_size", "checksum", "learning_rate", "name", "numpy_version",
      "params", "python_version", "reproducible", "seed", "timestamp">>

\* sorted(items): the items by ascending key
SortItems(items) ==
    LET present == SelectSeq(KeyOrder,
                             LAMBDA k : \E i \in 1..Len(items) : items[i][1] = k)
    IN [j \in 1..Len(present) |->
          items[CHOOSE i \in 1..Len(items) : items[i][1] = present[j]]]

\* json.dumps(obj, sort_keys=sort): the JSON text written for a value
RECURSIVE json_dumps(_, _)
json_dumps(x, sort) ==
    CASE x.t = "none" -> [t |-> "null", v |-> 0]
      [] x.t = "int" -> [t |-> "num", v |-> x.v]
      [] x.t = "bool" -> [t |-> IF x.v THEN "true" ELSE "false", v |-> 0]
      [] x.t = "str" -> [t |-> "string", v |-> x.v]
      [] x.t \in {"list", "tuple"} ->
           [t |-> "array", v |-> [i \in 1..Len(x.v) |-> json_dumps(x.v[i], sort)]]
      [] x.t = "dict" ->
           LET items == IF sort THEN SortItems(x.v) ELSE x.v
           IN [t |-> "object",
               v |-> [i \in 1..Len(items) |->
                        <<items[i][1], json_dumps(items[i][2], sort)>>]]

\* json.load(f): the value a JSON text parses to
RECURSIVE json_load(_)
json_load(j) ==
    CASE j.t = "null" -> PNone
      [] j.t = "num" -> PInt(j.v)
      [] j.t = "true" -> PBool(TRUE)
      [] j.t = "false" -> PBool(FALSE)
      [] j.t = "string" -> PStr(j.v)
      [] j.t = "array" -> PList([i \in 1..Len(j.v) |-> json_load(j.v[i])])
      [] j.t = "object" ->
           PDict([i \in 1..Len(j.v) |-> <<j.v[i][1], json_load(j.v[i][2])>>])

\* manifest_str.encode(): the text as a sequence of byte codes
Alphabet ==
    <<"0", "1", "2", "3", "4", "5", "6", "7", "8", "9", ".", ":", "-", "_",
      "T", "Z", "e", "x", "p", "{", "}", "[", "]", ",", "n", "t", "f">>
      \o KeyOrder
Code(c) == CHOOSE i \in 1..Len(Alphabet) : Alphabet[i] = c
Codes(cs) == [i \in 1..Len(cs) |-> Code(cs[i])]

RECURSIVE Bytes(_)
RECURSIVE BytesOfAll(_, _)
BytesOfAll(js, i) ==
    IF i > Len(js) THEN <<>>
    ELSE (IF i > 1 THEN <<Code(",")>> ELSE <<>>)
         \o Bytes(js[i]) \o BytesOfAll(js, i + 1)
Bytes(j) ==
    CASE j.t = "null" -> <<Code("n")>>
      [] j.t = "true" -> <<Code("t")>>
      [] j.t = "false" -> <<Code("f")>>
      [] j.t = "num" -> Codes(Str(j.v))
      [] j.t = "string" -> Codes(j.v)
      [] j.t = "array" -> <<Code("[")>> \o BytesOfAll(j.v, 1) \o <<Code("]")>>
      [] j.t = "object" ->
           <<Code("{")>>
           \o BytesOfAll([i \in 1..Len(j.v) |->
                            [t |-> "array",
                             v |-> <<[t |-> "string", v |-> <<j.v[i][1]>>],
                                     j.v[i][2]>>]], 1)
           \o <<Code("}")>>

(* hashlib.sha256(...).hexdigest(): a 64-digit hexadecimal digest, here a  *)
(* position-weighted sum of the bytes expanded to 64 hexadecimal digits    *)
RECURSIVE WeightedSum(_, _, _)
WeightedSum(bs, lo, hi) ==
    IF lo > hi THEN 0
    ELSE IF lo = hi THEN (bs[lo] * (lo * lo + 3 * lo + 1)) % 65521
    ELSE LET mid == (lo + hi) \div 2
         IN (WeightedSum(bs, lo, mid) + WeightedSum(bs, mid + 1, hi)) % 65521
hexdigest(bs) ==
    LET h == WeightedSum(bs, 1, Len(bs))
    IN [i \in 1..DigestLen |-> ((h * (2 * i + 1) + i) \div (1 + (i % 5))) % 16]

----------------------------------------------------------------------------
(* Manifests *)

\* datetime.utcnow().isoformat() + "Z", the time of day part: "T00:00:SS" + "Z"
Timestamp(c) ==
    <<"T", "0", "0", ":", "0", "0", ":">>
    \o (IF c < 10 THEN <<"0">> ELSE <<>>) \o Str(c) \o <<"Z">>

\* f"{major}.{minor}.{micro}" of os.sys.version_info
version_info == [major |-> 3, minor |-> 11, micro |-> 0]
python_version ==
    Str(version_info.major) \o <<".">> \o Str(version_info.minor)
    \o <<".">> \o Str(version_info.micro)

\* np.__version__
numpy_version == <<"1", ".", "2", "6", ".", "0">>

\* json.dumps(manifest): keys in insertion order
ManifestTextUnsorted(m) == Bytes(json_dumps(m, FALSE))

\* manifest_str = json.dumps(manifest, sort_keys=True)
ManifestText(m) == Bytes(json_dumps(m, TRUE))

\* hashlib.sha256(manifest_str.encode()).hexdigest()[:16]
Checksum(m) == SubSeq(hexdigest(ManifestText(m)), 1, ChecksumLen)

(* The inputs *)
Names == {<<"e", "1">>, <<"e", "x", "p">>}
ManifestSeeds == {0, RANDOM_SEED}
Dirs == {"experiments", "out"}
One == PInt(1)
ParamsSet ==
    {PNone, PDict(<<>>), PDict(<< <<"learning_rate", One>> >>)}
    \cup UNION {{PDict(<< <<"learning_rate", One>>, <<"batch_size", b>> >>),
                 PDict(<< <<"batch_size", b>>, <<"learning_rate", One>> >>)} :
                b \in {PList(<<One>>), PTuple(<<One>>)}}

\* reproducibility.create_experiment_manifest, at clock reading c
create_experiment_manifest(name, seed, params, c) ==
    LET m == PDict(<<
                <<"name", PStr(name)>>,
                <<"timestamp", PStr(Timestamp(c))>>,
                <<"seed", PInt(seed)>>,
                <<"python_version", PStr(python_version)>>,
                <<"numpy_version", PStr(numpy_version)>>,
                <<"params", IF params.t = "none" \/ params.v = <<>>
                            THEN PDict(<<>>) ELSE params>>,
                <<"reproducible", PBool(TRUE)>> >>)
    IN PDict(Append(m.v, <<"checksum", PStr(Checksum(m))>>))

\* every manifest the inputs give, built once
Manifests ==
    [name \in Names, seed \in ManifestSeeds, params \in ParamsSet, c \in 0..MaxClock |->
       create_experiment_manifest(name, seed, params, c)]

\* f"{manifest['name']}_{manifest['timestamp'].replace(':', '-')}.json"
Replace(cs, old, new) == [i \in 1..Len(cs) |-> IF cs[i] = old THEN new ELSE cs[i]]
Filename(m) ==
    Get(m, "name").v \o <<"_">> \o Replace(Get(m, "timestamp").v, ":", "-")
    \o <<".", "json">>

\* output_dir / filename
OutputPath(m, dir) == <<dir>> \o Filename(m)

\* json.dump(manifest, f, indent=2), with the checksum left out
FileTextNoChecksum(m) == json_dumps(PDict(SubSeq(m.v, 1, Len(m.v) - 1)), FALSE)

\* json.dump(manifest, f, indent=2): the text written
FileText(m) == json_dumps(m, FALSE)

CreateManifest ==
    /\ Importable(env, "numpy")
    /\ \E name \in Names, seed \in ManifestSeeds, params \in ParamsSet :
         manifest' = Manifests[name, seed, params, clock]
    /\ previous' = PNone
    /\ saved' = <<>>
    /\ loaded' = PNone
    /\ UNCHANGED <<seedVars, verifyVars, clock, files>>

\* a caller builds a second manifest and keeps the first to compare them
BuildAgain ==
    /\ manifest.t = "dict"
    /\ \E name \in Names, seed \in ManifestSeeds, params \in ParamsSet :
         manifest' = Manifests[name, seed, params, clock]
    /\ previous' = manifest
    /\ saved' = <<>>
    /\ loaded' = PNone
    /\ UNCHANGED <<seedVars, verifyVars, clock, files>>

\* time passes
Tick ==
    /\ clock < MaxClock
    /\ clock' = clock + 1
    /\ UNCHANGED <<seedVars, verifyVars, manifest, previous, files, saved, loaded>>

\* reproducibility.save_experiment(manifest, output_dir); the model follows
\* one file: the disk holds at most an earlier file of the same path
SaveExperiment ==
    /\ manifest.t = "dict"
    /\ \E dir \in Dirs :
         LET path == OutputPath(manifest, dir)
         IN /\ \A q \in DOMAIN files : q = path
            /\ files' = [q \in {path} |-> FileText(manifest)]
            /\ saved' = path
    /\ loaded' = PNone
    /\ UNCHANGED <<seedVars, verifyVars, clock, manifest, previous>>

\* the caller reads the written file back: json.load(open(path))
Load ==
    /\ saved # <<>>
    /\ saved \in DOMAIN files
    /\ loaded' = json_load(files[saved])
    /\ UNCHANGED <<seedVars, verifyVars, clock, manifest, previous, files, saved>>

\* the caller empties the output directories (retention is the caller's)
Cleanup ==
    /\ DOMAIN files # {}
    /\ files' = <<>>
    /\ saved' = <<>>
    /\ loaded' = PNone
    /\ UNCHANGED <<seedVars, verifyVars, clock, manifest, previous>>

\* setup.py: install_requires is numpy alone
InitInstalled ==
    /\ InitSeed
    /\ env = [b \in Backends |-> IF b = "numpy" THEN "ok" ELSE "absent"]
    /\ InitVerify
    /\ InitManifest

NextBuild == CreateManifest \/ BuildAgain \/ Tick
SpecBuild == InitInstalled /\ [][NextBuild]_vars

NextStore == CreateManifest \/ Tick \/ SaveExperiment \/ Load \/ Cleanup
SpecStore == InitInstalled /\ [][NextStore]_vars

----------------------------------------------------------------------------
(* The claims *)

Observable == <<pyState, hashSeed, gen, cudaGen, cudnn>>
Working(b) == env[b] \in {"ok", "cuda"}
Clean == \A b \in Backends : env[b] \in {"absent", "ok", "cuda"}
LastBroadcast == calls # <<>> /\ Last.op \in BroadcastOps
IndexOf(seq, x) == CHOOSE i \in 1..Len(seq) : seq[i] = x

\* C1: verify_reproducibility called with n_runs = 1 is rejected: it ends in
\* an error, never in a returned True or False.
C1_RunsFloorRejected ==
    (vpc = "done" /\ vruns = 1) => vret = "raised"

\* C2: a broadcaster called a second time in a row with the same seed leaves
\* the generators, PYTHONHASHSEED and the determinism flags as the first call
\* left them, so the draws that follow are the same.
C2_Idempotent ==
    [][\A op \in BroadcastOps, s \in Seeds :
         (calls # <<>> /\ Last.op = op /\ Last.seed = s /\ Apply(op, s))
         => /\ Observable' = Observable
            /\ DrawList(pyState', NDraws) = DrawList(pyState, NDraws)]_vars

C2_Witness ==
    /\ Len(calls) = 2
    /\ calls[1] = calls[2]
    /\ calls[2].op = "set_all_seeds"
    /\ ~calls[2].raised
    /\ env["torch"] = "cuda"
    /\ hashSeed = Str(calls[2].seed)

\* C3: with n_runs >= 2 the verifier has run func n_runs times, each time
\* right after re-applying the seed, and returns True exactly when all the
\* results are equal; a func that only draws from a generator the
\* broadcaster seeds gives True.
C3_VerifierResult ==
    (vpc = "done" /\ vruns >= 2 /\ vret # "raised") =>
        /\ Len(results) = vruns
        /\ (vret = "True") <=>
             (\A i, j \in 1..Len(results) : results[i] = results[j])
        /\ (vret = "False") <=>
             (\E k \in 1..Len(results) : results[k] # results[1])
        /\ vfunc = "sample_random" =>
             /\ vret = "True"
             /\ \A i \in 1..vruns : results[i] = DrawList(Seeded(vseed), NDraws)
        /\ vfunc = "np_random" =>
             /\ vret = "True"
             /\ \A i \in 1..vruns : results[i] = <<Value(Seeded(vseed))>>

C3_Witness ==
    /\ vpc = "done"
    /\ vruns = 3
    /\ vfunc = "time"
    /\ vret = "False"
    /\ results[1] = results[2]
    /\ results[3] # results[1]

Priority == <<"numpy", "torch", "tensorflow", "jax">>
C5_OrderOfApplication ==
    (LastBroadcast /\ Last.op \in {"set_seed", "set_all_seeds"} /\ ~Last.raised) =>
        /\ order[1] = "random"
        /\ order[2] = "PYTHONHASHSEED"
        /\ \A i, j \in 3..Len(order) :
             i < j => IndexOf(Priority, order[i]) < IndexOf(Priority, order[j])

Probed(op) ==
    IF op = "set_all_seeds" THEN Backends ELSE {"numpy", "torch", "tensorflow"}
C7_MisconfigurationPropagates ==
    LastBroadcast =>
        ((\E b \in Probed(Last.op) : env[b] \in {"broken", "seedfail"})
            => Last.raised)

\* C8 as claimed: the record read back from the file save_experiment wrote
\* equals the manifest in memory in every field.
C8_RoundTrip ==
    loaded.t = "dict" => PyEq(loaded, manifest)

\* C8 amended: the record read back equals the manifest in memory in every
\* field, the checksum included, when params holds no tuple (JSON has no
\* tuple: one is read back as a list); whatever params holds, every field
\* other than params is equal.
RECURSIVE JsonNative(_)
JsonNative(x) ==
    CASE x.t = "tuple" -> FALSE
      [] x.t = "list" -> \A i \in 1..Len(x.v) : JsonNative(x.v[i])
      [] x.t = "dict" -> \A i \in 1..Len(x.v) : JsonNative(x.v[i][2])
      [] OTHER -> TRUE
C8_RoundTripJsonNative ==
    loaded.t = "dict" =>
        /\ Keys(loaded) = Keys(manifest)
        /\ \A k \in Keys(manifest) \ {"params"} : PyEq(Get(loaded, k), Get(manifest, k))
        /\ Get(loaded, "checksum").v = Get(manifest, "checksum").v
        /\ JsonNative(Get(manifest, "params")) => PyEq(loaded, manifest)

C8_Witness ==
    /\ loaded.t = "dict"
    /\ Len(Get(manifest, "params").v) = 2
    /\ Get(Get(manifest, "params"), "batch_size").t = "list"
    /\ saved \in DOMAIN files
    /\ PyEq(loaded, manifest)

\* C9: the checksum is the last field, 16 hexadecimal digits computed from
\* the other fields serialized with sorted keys: two builds that agree on
\* every other field carry the same checksum, whatever the insertion order
\* of the params keys, and two builds of the same name, seed and params
\* differ in timestamp and checksum at most.
C9_ChecksumDeterminism ==
    (manifest.t = "dict" /\ previous.t = "dict") =>
        LET sum == Get(manifest, "checksum").v
            others == Keys(manifest) \ {"checksum"}
        IN /\ manifest.v[Len(manifest.v)][1] = "checksum"
           /\ Len(sum) = ChecksumLen
           /\ \A i \in 1..Len(sum) : sum[i] \in 0..15
           /\ (\A k \in others : PyEq(Get(manifest, k), Get(previous, k)))
                => sum = Get(previous, "checksum").v
           /\ (\A k \in {"name", "seed", "params"} :
                  PyEq(Get(manifest, k), Get(previous, k)))
                => \A k \in others \ {"timestamp"} :
                      PyEq(Get(manifest, k), Get(previous, k))

C9_Witness ==
    /\ manifest.t = "dict"
    /\ previous.t = "dict"
    /\ Get(manifest, "params").v # Get(previous, "params").v
    /\ \A k \in Keys(manifest) \ {"checksum"} : PyEq(Get(manifest, k), Get(previous, k))
    /\ Get(manifest, "checksum").v = Get(previous, "checksum").v

\* C10: get_seed() returns the seed given to the most recent set_seed call,
\* and RANDOM_SEED when none was made.
C10_GetSeedIsCurrent ==
    (calls # <<>> /\ Last.op = "get_seed") =>
        IF Len(calls) = 2 /\ calls[1].op = "set_seed" /\ ~calls[1].raised
        THEN Last.ret = calls[1].seed
        ELSE Len(calls) = 1 => Last.ret = RANDOM_SEED

====
